---- MODULE Spec2Model ----
(***************************************************************************)
(* Model of the streaming aggregation core of binance_data_collector.py:   *)
(* DataProcessor (trades_buffer, second_trade_counts, add_trade,           *)
(* process_minute_candle) driven by BinanceDataCollector._handle_message.  *)
(*                                                                         *)
(* Times are milliseconds, as in the source.  Decimal strings of the feed  *)
(* ('p', 'q', 'o', 'h', 'l', 'c', 'v') are sequences of digit characters   *)
(* and float() is the parse of such a sequence; quantities are therefore   *)
(* whole units.  A float is a binary floating-point number rounded to the  *)
(* nearest, ties to even, as in the source; its significand has            *)
(* SignificandBits bits (53 in CPython), so whole numbers below            *)
(* 2^SignificandBits and their sums below it are exact.                    *)
(***************************************************************************)
EXTENDS Integers, Sequences, FiniteSets, TLC

VARIABLES
    trades_buffer,        \* DataProcessor.trades_buffer: list of TradeData
    second_trade_counts,  \* DataProcessor.second_trade_counts: dict second -> counts
    recorded,             \* history: every TradeData passed to add_trade, in order
    max_close_time,       \* history: largest close_time of a closed bucket processed so far
    op,                   \* the operation performed by the last step
    kline_data,           \* the 'k' object of the kline message handled by the last step
    ret,                  \* value returned by the last process_minute_candle call
    save_calls,           \* candles handed to DataStorage.save_candle by the last step
    raised,               \* exception raised while the last message was handled, "" if none
    ws_state,             \* _websocket_handler: "receiving" in the message loop,
                          \* "reconnecting" once an exception has left the loop body
    output_format,        \* DataStorage.output_format
    candles_table,        \* rows of the sqlite table candles
    now,                  \* clock of the database, in seconds (CURRENT_TIMESTAMP)
    inbox,                \* messages the socket has received and the loop has not taken
    arrived,              \* history: the messages received, in arrival order
    handled,              \* history: the messages taken by the loop, in the order taken
    pc,                   \* position of the loop: "recv" between two messages, else the
                          \* part of _handle_message that runs next
    frame,                \* the message being handled and the locals of its call
    running,              \* BinanceDataCollector.running
    reconnect_attempts,   \* BinanceDataCollector.reconnect_attempts
    wait_time,            \* wait_time of the last _handle_reconnection that slept
    handler,              \* position of run(), _websocket_handler and _handle_reconnection
    connects,             \* history: number of _create_websocket_connection calls
    consecutive,          \* history: failures handled while running since the last
                          \* successful connection
    slept,                \* history: asyncio.sleep has returned since the last
                          \* connection attempt
    shutdown              \* history: _signal_handler has run

\* the DataProcessor, the history of its calls and the outcome of the last step
corevars == <<trades_buffer, second_trade_counts, recorded, max_close_time,
              op, kline_data, ret, save_calls, raised, ws_state>>

\* the DataStorage
sinkvars == <<output_format, candles_table, now>>

\* the message loop of _websocket_handler
loopvars == <<inbox, arrived, handled, pc, frame>>

\* the connection loop of _websocket_handler and its history
connvars == <<running, reconnect_attempts, wait_time, handler,
              connects, consecutive, slept, shutdown>>

vars == <<corevars, sinkvars, loopvars, connvars>>

----------------------------------------------------------------------------
(* Bounds of the model *)

\* total number of add_trade calls in a behaviour
MaxTrades == 2

\* bits of the significand of a float
SignificandBits == 7

----------------------------------------------------------------------------
(* Program constants *)

MsPerSecond == 1000

\* mutant: only one minute of trades is kept
RetentionMs_one_minute == 60 * 1000

RetentionMs == 2 * 60 * 1000

\* length of a bucket of the kline_1m stream
BucketMs == 60000

\* Optional[...]: None is the empty sequence, a value v is <<v>>
None == <<>>
Some(v) == <<v>>

----------------------------------------------------------------------------
(* Inputs from the feed *)

Digits == <<"0", "1", "2", "3", "4", "5", "6", "7", "8", "9">>

DigitValue(ch) == (CHOOSE i \in 1..10 : Digits[i] = ch) - 1

\* the whole number a sequence of digits denotes
RECURSIVE DecimalValue(_)
DecimalValue(s) ==
    IF Len(s) = 0 THEN 0
    ELSE 10 * DecimalValue(SubSeq(s, 1, Len(s) - 1)) + DigitValue(s[Len(s)])

\* the first whole number that needs more bits than the significand has
ExactBelow == 2 ^ SignificandBits

\* number of bits of n > 0
BitLength(n) == CHOOSE b \in 1..31 : n < 2 ^ b /\ n >= 2 ^ (b - 1)

\* the float nearest to the whole number n >= 0, a tie going to the even significand
Round(n) ==
    IF n < ExactBelow THEN n
    ELSE LET unit == 2 ^ (BitLength(n) - SignificandBits)
             q == n \div unit
             r == n % unit
         IN  IF 2 * r > unit \/ (2 * r = unit /\ q % 2 = 1)
             THEN (q + 1) * unit
             ELSE q * unit

float(s) == Round(DecimalValue(s))

TradeTimes == {500, 59999, 60000}
TradeIds == {7}
QuantityStrings == {<<"1">>}
PriceStrings == {<<"9", "0">>}

\* the 'data' object of a <symbol>@trade message
TradeMessages ==
    [T : TradeTimes, p : PriceStrings, q : QuantityStrings, m : BOOLEAN, t : TradeIds]

\* open times of the 1-minute buckets the feed reports
BucketOpenTimes == {0, 60000, 120000}

KlineBody(o) ==
    [t |-> o, T |-> o + BucketMs - 1,
     o |-> <<"9", "0">>, h |-> <<"9", "5">>, l |-> <<"8", "5">>,
     c |-> <<"9", "1">>, v |-> <<"1", "2">>]

\* the 'k' object of a <symbol>@kline_1m message: 'x' true, false or missing
\* the bucket still in progress, whose updates are not closed
OpenBucketTime == 60000

ClosedKlines == {KlineBody(o) @@ [x |-> TRUE] : o \in BucketOpenTimes}

Klines ==
    ClosedKlines \cup {KlineBody(OpenBucketTime) @@ [x |-> FALSE], KlineBody(OpenBucketTime)}

----------------------------------------------------------------------------
(* DataProcessor *)

TradeData(m) ==
    [timestamp |-> m.T, price |-> float(m.p), quantity |-> float(m.q),
     is_buyer_maker |-> m.m, trade_id |-> m.t]

DefaultCounts == [buyers |-> 0, sellers |-> 0]

\* d[k] on the defaultdict: a missing key is inserted with the default value
GetItem(d, k) == IF k \in DOMAIN d THEN d ELSE d @@ (k :> DefaultCounts)

\* mutant: the counter of the second is set to 1 instead of being incremented
add_trade_set_one(buf, counts, trade) ==
    LET second_timestamp == trade.timestamp \div MsPerSecond
        d == GetItem(counts, second_timestamp)
    IN  [trades_buffer |-> Append(buf, trade),
         second_trade_counts |->
            IF trade.is_buyer_maker
            THEN [d EXCEPT ![second_timestamp].sellers = 1]
            ELSE [d EXCEPT ![second_timestamp].buyers = 1]]

\* mutant: both counters of the second are incremented
add_trade_both_counters(buf, counts, trade) ==
    LET second_timestamp == trade.timestamp \div MsPerSecond
        d == GetItem(counts, second_timestamp)
    IN  [trades_buffer |-> Append(buf, trade),
         second_trade_counts |->
            [d EXCEPT ![second_timestamp] = [buyers |-> @.buyers + 1,
                                             sellers |-> @.sellers + 1]]]

add_trade(buf, counts, trade) ==
    LET second_timestamp == trade.timestamp \div MsPerSecond
        d == GetItem(counts, second_timestamp)
    IN  [trades_buffer |-> Append(buf, trade),
         second_trade_counts |->
            IF trade.is_buyer_maker
            THEN [d EXCEPT ![second_timestamp].sellers = @ + 1]
            ELSE [d EXCEPT ![second_timestamp].buyers = @ + 1]]

\* mutant: the close time is excluded from the range
InMinute_open_end(trade, open_time, close_time) ==
    open_time <= trade.timestamp /\ trade.timestamp < close_time

InMinute(trade, open_time, close_time) ==
    open_time <= trade.timestamp /\ trade.timestamp <= close_time

\* sum(trade.quantity for ...): float additions from 0, in the order of the list
RECURSIVE SumQuantity(_)
SumQuantity(s) ==
    IF Len(s) = 0 THEN 0
    ELSE Round(SumQuantity(SubSeq(s, 1, Len(s) - 1)) + s[Len(s)].quantity)

IsBuyer(trade) == ~trade.is_buyer_maker
IsSeller(trade) == trade.is_buyer_maker

\* mutant: a tie is reported as buyers' power
PowerPosition_tie_buyers(num_buyers, num_sellers) ==
    IF num_buyers >= num_sellers THEN 1
    ELSE IF num_sellers > num_buyers THEN -1
    ELSE 0

PowerPosition(num_buyers, num_sellers) ==
    IF num_buyers > num_sellers THEN 1
    ELSE IF num_sellers > num_buyers THEN -1
    ELSE 0

Max2(a, b) == IF a >= b THEN a ELSE b

MaxOf(S) == CHOOSE m \in S : \A n \in S : n <= m

\* the loop over range(start_second, end_second + 1): every second of the range is
\* read through the defaultdict, the running maxima start at 0
Read(d, second) == IF second \in DOMAIN d THEN d[second] ELSE DefaultCounts

ScanSeconds(d, start_second, end_second) ==
    [second \in DOMAIN d \cup (start_second..end_second) |-> Read(d, second)]

\* mutant: the last second of the range is not read
MaxBuyers_before_end(d, start_second, end_second) ==
    MaxOf({0} \cup {Read(d, second).buyers : second \in start_second..(end_second - 1)})

MaxBuyers(d, start_second, end_second) ==
    MaxOf({0} \cup {Read(d, second).buyers : second \in start_second..end_second})

MaxSellers(d, start_second, end_second) ==
    MaxOf({0} \cup {Read(d, second).sellers : second \in start_second..end_second})

\* mutant: a trade at the cutoff itself is kept
KeepTrade_inclusive(trade, cutoff_time) == trade.timestamp >= cutoff_time

KeepTrade(trade, cutoff_time) == trade.timestamp > cutoff_time

\* mutant: the tally of the cutoff second itself is dropped
DropSecond_inclusive(second, cutoff_second) == second <= cutoff_second

DropSecond(second, cutoff_second) == second < cutoff_second

DropSeconds(d, cutoff_second) ==
    [second \in {s \in DOMAIN d : ~DropSecond(s, cutoff_second)} |-> d[second]]

\* mutant: a kline without 'x' is taken for a closed one
IsClosed_default_true(k) == IF "x" \in DOMAIN k THEN k.x ELSE TRUE

\* kline_data.get('x', False)
IsClosed(k) == IF "x" \in DOMAIN k THEN k.x ELSE FALSE

\* process_minute_candle from `open_time = int(kline_data['t'])` on
ClosedCandle(buf, counts, k) ==
    LET open_time == k.t
        close_time == k.T
        minute_trades == SelectSeq(buf, LAMBDA trade : InMinute(trade, open_time, close_time))
        empty == Len(minute_trades) = 0
        num_buyers == IF empty THEN 0 ELSE Len(SelectSeq(minute_trades, IsBuyer))
        num_sellers == IF empty THEN 0 ELSE Len(SelectSeq(minute_trades, IsSeller))
        buyers_volume == IF empty THEN 0 ELSE SumQuantity(SelectSeq(minute_trades, IsBuyer))
        sellers_volume == IF empty THEN 0 ELSE SumQuantity(SelectSeq(minute_trades, IsSeller))
        power_position == PowerPosition(num_buyers, num_sellers)
        start_second == open_time \div MsPerSecond
        end_second == close_time \div MsPerSecond
        candle == [timestamp |-> open_time,
                   open_price |-> float(k.o),
                   high_price |-> float(k.h),
                   low_price |-> float(k.l),
                   close_price |-> float(k.c),
                   volume |-> float(k.v),
                   num_buyers |-> num_buyers,
                   num_sellers |-> num_sellers,
                   buyers_volume |-> buyers_volume,
                   sellers_volume |-> sellers_volume,
                   power_position |-> power_position,
                   max_buyers_per_second |-> MaxBuyers(counts, start_second, end_second),
                   max_sellers_per_second |-> MaxSellers(counts, start_second, end_second)]
        cutoff_time == close_time - RetentionMs
        cutoff_second == cutoff_time \div MsPerSecond
    IN  [ret |-> Some(candle),
         trades_buffer |-> SelectSeq(buf, LAMBDA trade : KeepTrade(trade, cutoff_time)),
         second_trade_counts |->
            DropSeconds(ScanSeconds(counts, start_second, end_second), cutoff_second)]

\* mutant: a bucket without trades is skipped, no candle and no cleanup
process_minute_candle_skip_empty(buf, counts, k) ==
    IF ~IsClosed(k) \/ \A i \in DOMAIN buf : ~InMinute(buf[i], k.t, k.T)
    THEN [ret |-> None, trades_buffer |-> buf, second_trade_counts |-> counts]
    ELSE ClosedCandle(buf, counts, k)

process_minute_candle(buf, counts, k) ==
    IF ~IsClosed(k)
    THEN [ret |-> None, trades_buffer |-> buf, second_trade_counts |-> counts]
    ELSE ClosedCandle(buf, counts, k)

----------------------------------------------------------------------------
(* DataStorage *)

EmptyTable == {}

\* INSERT OR REPLACE INTO candles: a row with the primary key of the candle is deleted,
\* then a row of the thirteen candle columns is inserted, whose created_at takes its
\* default CURRENT_TIMESTAMP
save_to_sqlite(table, candle, clock) ==
    {row \in table : row.timestamp # candle.timestamp}
        \cup {candle @@ [created_at |-> clock]}

\* the table after save_candle; the csv and json sinks append a line to a file
save_candle(fmt, table, candle, clock) ==
    IF fmt = "sqlite" THEN save_to_sqlite(table, candle, clock) ELSE table

----------------------------------------------------------------------------
(* _handle_message *)

\* the strings int() and float() accept, among those of the feed
DigitSet == {Digits[j] : j \in DOMAIN Digits}

IsNumber(s) == Len(s) > 0 /\ \A i \in 1..Len(s) : s[i] \in DigitSet

\* d[key] then float(): the exception raised, "" if none
FloatError(d, key) ==
    IF key \notin DOMAIN d THEN "KeyError"
    ELSE IF ~IsNumber(d[key]) THEN "ValueError"
    ELSE ""

\* the first exception raised by the reads of the keys, in their order
RECURSIVE FirstFloatError(_, _)
FirstFloatError(d, keys) ==
    IF Len(keys) = 0 THEN ""
    ELSE IF FloatError(d, Head(keys)) # "" THEN FloatError(d, Head(keys))
    ELSE FirstFloatError(d, Tail(keys))

\* the exception raised while the TradeData of a trade message is built
TradeError(m) ==
    IF "T" \notin DOMAIN m THEN "KeyError"
    ELSE IF FirstFloatError(m, <<"p", "q">>) # "" THEN FirstFloatError(m, <<"p", "q">>)
    ELSE IF "m" \notin DOMAIN m \/ "t" \notin DOMAIN m THEN "KeyError"
    ELSE ""

\* the exception raised by int(kline_data['t']) and int(kline_data['T'])
KlineTimeError(k) ==
    IF "t" \notin DOMAIN k \/ "T" \notin DOMAIN k THEN "KeyError" ELSE ""

\* the exception raised while the CandleData is built
CandleError(k) == FirstFloatError(k, <<"o", "h", "l", "c", "v">>)

\* process_minute_candle of a closed kline left by an exception: the exception and
\* the tally map it leaves behind
process_minute_candle_raises(counts, k) ==
    IF KlineTimeError(k) # ""
    THEN [exc |-> KlineTimeError(k), second_trade_counts |-> counts]
    ELSE IF CandleError(k) # ""
    THEN [exc |-> CandleError(k),
          second_trade_counts |->
              ScanSeconds(counts, k.t \div MsPerSecond, k.T \div MsPerSecond)]
    ELSE [exc |-> "", second_trade_counts |-> counts]

\* the exception a failing sink raises
SaveError == "OSError"

ExceptionClasses == {"KeyError", "ValueError", "OSError"}

\* mutant: only the errors of malformed fields are caught
Catches_value_errors(exc) == exc \in {"KeyError", "ValueError"}

\* except Exception
Catches(exc) == exc \in ExceptionClasses

\* _websocket_handler after _handle_message: the loop goes on unless an exception
\* reaches its except clauses
AfterHandling(exc) == IF exc = "" \/ Catches(exc) THEN "receiving" ELSE "reconnecting"

\* mutant: the candle is handed to the sink twice
save_candle_calls_twice(candle) == IF candle = None THEN <<>> ELSE candle \o candle

\* the calls of save_candle made for the value process_minute_candle returned
save_candle_calls(candle) == IF candle = None THEN <<>> ELSE candle

----------------------------------------------------------------------------
(* State machine *)

EmptyDict == [second \in {} |-> DefaultCounts]

InitWith(fmt) ==
    /\ trades_buffer = <<>>
    /\ second_trade_counts = EmptyDict
    /\ recorded = <<>>
    /\ max_close_time = -1
    /\ op = "init"
    /\ kline_data = None
    /\ ret = None
    /\ save_calls = <<>>
    /\ raised = ""
    /\ ws_state = "receiving"
    /\ output_format = fmt
    /\ candles_table = EmptyTable
    /\ now = 0
    /\ inbox = <<>>
    /\ arrived = <<>>
    /\ handled = <<>>
    /\ pc = "recv"
    /\ frame = None
    /\ running = FALSE
    /\ reconnect_attempts = 0
    /\ wait_time = 0
    /\ handler = "init"
    /\ connects = 0
    /\ consecutive = 0
    /\ slept = FALSE
    /\ shutdown = FALSE

Init == InitWith("csv")

\* _handle_message left by exception exc, or by a plain return for "", with no effect
NoEffect(exc) ==
    /\ ret' = None
    /\ save_calls' = <<>>
    /\ raised' = exc
    /\ ws_state' = AfterHandling(exc)
    /\ UNCHANGED <<trades_buffer, second_trade_counts, max_close_time, candles_table>>

\* _handle_message on a <symbol>@trade message, at most max_trades add_trade calls
TradeStep(m, max_trades) ==
    /\ ws_state = "receiving"
    /\ pc = "recv"
    /\ op' = "trade"
    /\ kline_data' = None
    /\ \E exc \in {TradeError(m)} :
       IF exc # ""
       THEN NoEffect(exc) /\ UNCHANGED recorded
       ELSE /\ Len(recorded) < max_trades
            /\ \E trade \in {TradeData(m)} :
               \E r \in {add_trade(trades_buffer, second_trade_counts, trade)} :
                   /\ trades_buffer' = r.trades_buffer
                   /\ second_trade_counts' = r.second_trade_counts
                   /\ recorded' = Append(recorded, trade)
            /\ ret' = None
            /\ save_calls' = <<>>
            /\ raised' = ""
            /\ ws_state' = "receiving"
            /\ UNCHANGED <<max_close_time, candles_table>>
    /\ UNCHANGED <<output_format, now, loopvars>>

HandleTrade(m) == TradeStep(m, MaxTrades) /\ UNCHANGED connvars

NewMaxClose(k, r) ==
    IF r.ret # None THEN Max2(max_close_time, k.T) ELSE max_close_time

\* _handle_message on a <symbol>@kline_1m message whose 'k' object is k; save_ok tells
\* whether the sink accepts the candle or raises
KlineStep(k, save_ok) ==
    /\ ws_state = "receiving"
    /\ pc = "recv"
    /\ op' = "kline"
    /\ kline_data' = Some(k)
    /\ UNCHANGED <<recorded, output_format, now, loopvars>>
    /\ IF "x" \notin DOMAIN k
       THEN NoEffect("KeyError")
       ELSE IF ~k.x
       THEN NoEffect("")
       ELSE \E f \in {process_minute_candle_raises(second_trade_counts, k)} :
            IF f.exc # ""
            THEN /\ second_trade_counts' = f.second_trade_counts
                 /\ ret' = None
                 /\ save_calls' = <<>>
                 /\ raised' = f.exc
                 /\ ws_state' = AfterHandling(f.exc)
                 /\ UNCHANGED <<trades_buffer, max_close_time, candles_table>>
            ELSE \E r \in {process_minute_candle(trades_buffer, second_trade_counts, k)} :
                 \E exc \in {IF r.ret # None /\ ~save_ok THEN SaveError ELSE ""} :
                    /\ trades_buffer' = r.trades_buffer
                    /\ second_trade_counts' = r.second_trade_counts
                    /\ ret' = r.ret
                    /\ max_close_time' = NewMaxClose(k, r)
                    /\ save_calls' = save_candle_calls(r.ret)
                    /\ raised' = exc
                    /\ ws_state' = AfterHandling(exc)
                    /\ candles_table' =
                          IF r.ret # None /\ save_ok
                          THEN save_candle(output_format, candles_table, r.ret[1], now)
                          ELSE candles_table

HandleKline(k) == KlineStep(k, TRUE) /\ UNCHANGED connvars

\* a closed kline whose candle the sink fails to store
HandleKlineSaveFails(k) == IsClosed(k) /\ KlineStep(k, FALSE) /\ UNCHANGED connvars

Next ==
    \/ \E m \in TradeMessages : HandleTrade(m)
    \/ \E k \in Klines : HandleKline(k)

Spec == Init /\ [][Next]_vars

----------------------------------------------------------------------------
(* Vocabulary of the properties *)

\* the last step handled a closed bucket and process_minute_candle returned a candle
Closed == op = "kline" /\ ret # None

\* the step being taken handles a closed bucket
ClosedStep == op' = "kline" /\ ret' # None

\* positions of the trades of buf with open_time <= timestamp <= close_time of k
InRange(buf, k) ==
    {i \in DOMAIN buf : k.t <= buf[i].timestamp /\ buf[i].timestamp <= k.T}

Buyers(buf, I) == {i \in I : buf[i].is_buyer_maker = FALSE}
Sellers(buf, I) == {i \in I : buf[i].is_buyer_maker = TRUE}

RECURSIVE QuantityOver(_, _)
QuantityOver(buf, I) ==
    IF I = {} THEN 0
    ELSE LET i == CHOOSE j \in I : TRUE
         IN  buf[i].quantity + QuantityOver(buf, I \ {i})

\* the trades of buf newer than the cutoff, in order
NewerThan(buf, cutoff) == SelectSeq(buf, LAMBDA trade : trade.timestamp > cutoff)

Counted(candle) == candle.num_buyers + candle.num_sellers

----------------------------------------------------------------------------
(* C1: the trades a closed bucket counts are exactly the buffered trades with
   open_time <= timestamp <= close_time, both bounds inclusive. *)
C1_RangeInclusive ==
    [][ClosedStep =>
          Counted(ret'[1]) = Cardinality(InRange(trades_buffer, kline_data'[1]))]_vars

\* a bucket closed with one buffered trade on a bound of the bucket (counted) and one
\* buffered trade one millisecond outside it (not counted)
C1_Witness ==
    /\ Closed
    /\ recorded = trades_buffer
    /\ \E i, j \in DOMAIN trades_buffer :
          /\ trades_buffer[i].timestamp \in {kline_data[1].t, kline_data[1].T}
          /\ trades_buffer[j].timestamp \in {kline_data[1].t - 1, kline_data[1].T + 1}
    /\ Counted(ret[1]) = 1

(* C2: after a closed bucket with close time C, trades_buffer holds no trade with
   timestamp <= C - 120000 and second_trade_counts no key below floor((C - 120000) / 1000). *)
C2_NothingOlderThanCutoff ==
    Closed =>
        LET cutoff == kline_data[1].T - 120000
        IN  /\ \A i \in DOMAIN trades_buffer : trades_buffer[i].timestamp > cutoff
            /\ \A second \in DOMAIN second_trade_counts : second >= cutoff \div 1000

\* a close whose cutoff is the timestamp of a recorded trade: that trade and an older
\* one are gone from the buffer, as is the tally of the older second, while the tally
\* of the cutoff second remains
C2_Witness ==
    /\ Closed
    /\ \E i \in DOMAIN recorded :
          /\ recorded[i].timestamp = kline_data[1].T - 120000
          /\ (recorded[i].timestamp \div 1000) \in DOMAIN second_trade_counts
    /\ \E i \in DOMAIN recorded :
          (recorded[i].timestamp \div 1000) \notin DOMAIN second_trade_counts
    /\ Len(trades_buffer) = 0

(* C3: the eviction of a closed bucket with close time C keeps, in order, every
   buffered trade with timestamp > C - 120000 and removes the others, and every
   tally whose second is >= floor((C - 120000) / 1000) keeps its counts. *)
C3_EvictsOnlyOld ==
    [][ClosedStep =>
          LET cutoff == kline_data'[1].T - 120000
          IN  /\ trades_buffer' = NewerThan(trades_buffer, cutoff)
              /\ \A second \in DOMAIN second_trade_counts :
                    second >= cutoff \div 1000 =>
                        /\ second \in DOMAIN second_trade_counts'
                        /\ second_trade_counts'[second] = second_trade_counts[second]]_vars

\* bucket 3 closed: the trade at its cutoff (bucket 1) is evicted, the trade of
\* bucket 2 one millisecond later is still buffered, the tally of the cutoff second
\* still holds its count
C3_Witness ==
    /\ Closed
    /\ LET cutoff == kline_data[1].T - 120000
       IN  /\ \E i \in DOMAIN recorded : recorded[i].timestamp = cutoff
           /\ \E i \in DOMAIN trades_buffer : trades_buffer[i].timestamp = cutoff + 1
           /\ Len(trades_buffer) = 1
           /\ (cutoff \div 1000) \in DOMAIN second_trade_counts
           /\ second_trade_counts[cutoff \div 1000].buyers
                 + second_trade_counts[cutoff \div 1000].sellers = 1

(* C4: closing a 60000 ms bucket [o, o + 59999] never evicts a trade of that bucket
   or of the bucket before it, so a bucket closed late, when no bucket later than
   the next one has been closed, still counts every trade recorded inside it. *)
C4_LateBucketSeesItsTrades ==
    [][(ClosedStep /\ kline_data'[1].T = kline_data'[1].t + 59999) =>
          LET k == kline_data'[1]
              both == [t |-> k.t - 60000, T |-> k.T]
          IN  /\ \A i \in InRange(trades_buffer, both) :
                    \E j \in DOMAIN trades_buffer' : trades_buffer'[j] = trades_buffer[i]
              /\ Cardinality(InRange(trades_buffer', both))
                    = Cardinality(InRange(trades_buffer, both))
              /\ max_close_time <= k.T + 60000 =>
                    Counted(ret'[1]) = Cardinality(InRange(recorded, k))]_vars

\* a bucket closed after the next bucket, whose close evicted an older trade: the
\* late candle counts the trade recorded inside the bucket
C4_Witness ==
    /\ Closed
    /\ max_close_time = kline_data[1].T + 60000
    /\ Len(recorded) > Len(trades_buffer)
    /\ Cardinality(InRange(recorded, kline_data[1])) = 1
    /\ Counted(ret[1]) = 1

(* C5: every key of second_trade_counts is the second of a trade passed to
   add_trade; the scan of process_minute_candle inserts no key. *)
C5_TalliesOnlyFromTrades ==
    \A second \in DOMAIN second_trade_counts :
        \E i \in DOMAIN recorded : recorded[i].timestamp \div 1000 = second

\* the kline is not marked closed: 'x' is false or missing
NotClosed(k) == "x" \notin DOMAIN k \/ k.x = FALSE

(* C6: a kline update not marked closed makes process_minute_candle return None and
   changes neither trades_buffer nor second_trade_counts; handling such a message
   evicts nothing and hands nothing to save_candle. *)
C6_OpenKlineIgnored ==
    /\ [](\A k \in Klines :
            NotClosed(k) =>
                process_minute_candle(trades_buffer, second_trade_counts, k)
                    = [ret |-> None, trades_buffer |-> trades_buffer,
                       second_trade_counts |-> second_trade_counts])
    /\ [][(op' = "kline" /\ NotClosed(kline_data'[1])) =>
            /\ ret' = None
            /\ trades_buffer' = trades_buffer
            /\ second_trade_counts' = second_trade_counts
            /\ save_calls' = <<>>]_vars

\* a kline without 'x' handled while trades and tallies are held
C6_Witness ==
    /\ op = "kline"
    /\ "x" \notin DOMAIN kline_data[1]
    /\ ret = None
    /\ save_calls = <<>>
    /\ Len(trades_buffer) = 2
    /\ DOMAIN second_trade_counts # {}

(* C7: the candle of a closed bucket has power_position 0 when num_buyers =
   num_sellers, 1 when num_buyers > num_sellers, -1 otherwise. *)
C7_PowerPosition ==
    Closed =>
        LET c == ret[1]
        IN  /\ c.power_position \in {-1, 0, 1}
            /\ c.num_buyers = c.num_sellers => c.power_position = 0
            /\ c.num_buyers > c.num_sellers => c.power_position = 1
            /\ c.num_buyers < c.num_sellers => c.power_position = -1

\* a tie between one buyer and one seller
C7_Witness ==
    /\ Closed
    /\ ret[1].num_buyers = 1
    /\ ret[1].num_sellers = 1
    /\ ret[1].power_position = 0

(* C8: closing a bucket with no buffered trade in [open_time, close_time] still
   yields a candle, handed to the sink, with zero counts, zero volumes and
   power_position 0, and the retention eviction is performed. *)
C8_EmptyBucket ==
    [][(/\ op' = "kline"
        /\ ~NotClosed(kline_data'[1])
        /\ InRange(trades_buffer, kline_data'[1]) = {}) =>
          LET cutoff == kline_data'[1].T - 120000
          IN  /\ ret' # None
              /\ save_calls' = ret'
              /\ ret'[1].num_buyers = 0
              /\ ret'[1].num_sellers = 0
              /\ ret'[1].buyers_volume = 0
              /\ ret'[1].sellers_volume = 0
              /\ ret'[1].power_position = 0
              /\ trades_buffer' = NewerThan(trades_buffer, cutoff)
              /\ \A second \in DOMAIN second_trade_counts' :
                    second >= cutoff \div 1000]_vars

\* an empty bucket closed: the all-zero candle is emitted and every recorded trade
\* has been evicted
C8_Witness ==
    /\ Closed
    /\ save_calls = ret
    /\ Counted(ret[1]) = 0
    /\ ret[1].power_position = 0
    /\ Len(recorded) = 2
    /\ \A i \in DOMAIN recorded : recorded[i].timestamp <= kline_data[1].T - 120000
    /\ Len(trades_buffer) = 0

\* the seconds scanned for kline k
SecondsOf(k) == (k.t \div 1000)..(k.T \div 1000)

AtSecond(buf, second) == {i \in DOMAIN buf : buf[i].timestamp \div 1000 = second}

(* C9: before any eviction, when the recorded trades within the span of a closed
   bucket all fall in one second s, max_buyers_per_second is the number of recorded
   trades of s with is_buyer_maker = false and max_sellers_per_second the number
   with is_buyer_maker = true; a trade recorded twice is counted twice. *)
C9_ExactTallyOfOneSecond ==
    [][(ClosedStep /\ trades_buffer = recorded) =>
          \A s \in SecondsOf(kline_data'[1]) :
              (\A i \in DOMAIN recorded :
                  recorded[i].timestamp \div 1000 \in SecondsOf(kline_data'[1])
                      => recorded[i].timestamp \div 1000 = s)
              /\ AtSecond(recorded, s) # {}
              => /\ ret'[1].max_buyers_per_second
                       = Cardinality(Buyers(recorded, AtSecond(recorded, s)))
                 /\ ret'[1].max_sellers_per_second
                       = Cardinality(Sellers(recorded, AtSecond(recorded, s)))]_vars

\* the same trade delivered twice, nothing evicted, both deliveries in the maximum
C9_Witness ==
    /\ Closed
    /\ trades_buffer = recorded
    /\ Len(recorded) = 2
    /\ recorded[1] = recorded[2]
    /\ recorded[1].timestamp \div 1000 \in SecondsOf(kline_data[1])
    /\ ret[1].max_buyers_per_second + ret[1].max_sellers_per_second = 2

(* C10: for a closed bucket with at least one matching trade, num_buyers and
   num_sellers count the matched trades with is_buyer_maker false and true, and
   buyers_volume and sellers_volume sum their quantities; the counts add up to the
   number of matched trades and the volumes to their total quantity. *)
C10_PartitionBySide ==
    [][(ClosedStep /\ InRange(trades_buffer, kline_data'[1]) # {}) =>
          LET I == InRange(trades_buffer, kline_data'[1])
              c == ret'[1]
          IN  /\ c.num_buyers = Cardinality(Buyers(trades_buffer, I))
              /\ c.num_sellers = Cardinality(Sellers(trades_buffer, I))
              /\ c.buyers_volume = QuantityOver(trades_buffer, Buyers(trades_buffer, I))
              /\ c.sellers_volume = QuantityOver(trades_buffer, Sellers(trades_buffer, I))
              /\ c.num_buyers + c.num_sellers = Cardinality(I)
              /\ c.buyers_volume + c.sellers_volume = QuantityOver(trades_buffer, I)]_vars

----------------------------------------------------------------------------
(* A bucket of three seconds: the trades of the scenario and their neighbours *)

\* number of add_trade calls in a behaviour of the scenario
MaxScenarioTrades == 3

ScenarioTradeTimes == {1000, 1500, 2999, 3000}

ScenarioTradeMessages ==
    [T : ScenarioTradeTimes, p : PriceStrings, q : {<<"1">>}, m : BOOLEAN, t : TradeIds]

\* the closed bucket [0, 3000]
ScenarioKline == [KlineBody(0) EXCEPT !.T = 3000] @@ [x |-> TRUE]

ScenarioTrade(m) == TradeStep(m, MaxScenarioTrades) /\ UNCHANGED connvars

NextScenario ==
    \/ \E m \in ScenarioTradeMessages : ScenarioTrade(m)
    \/ HandleKline(ScenarioKline)

SpecScenario == Init /\ [][NextScenario]_vars

\* the trade of the scenario at time T, a buy when the buyer is not the maker
ScenarioTradeAt(T, is_buyer_maker) ==
    [timestamp |-> T, price |-> 90, quantity |-> 1,
     is_buyer_maker |-> is_buyer_maker, trade_id |-> 7]

\* exactly the trades t=1000 buy, t=1500 sell, t=2999 buy have been recorded
ScenarioRecorded ==
    /\ Len(recorded) = 3
    /\ {recorded[i] : i \in DOMAIN recorded} =
          {ScenarioTradeAt(1000, FALSE), ScenarioTradeAt(1500, TRUE),
           ScenarioTradeAt(2999, FALSE)}

\* the tallies of second s, zero when the map has no entry for s
BuyersTally(d, s) == IF s \in DOMAIN d THEN d[s].buyers ELSE 0
SellersTally(d, s) == IF s \in DOMAIN d THEN d[s].sellers ELSE 0

\* m is the largest value of f over the seconds S
IsMaxOver(m, S, f(_)) == (\E s \in S : f(s) = m) /\ (\A s \in S : f(s) <= m)

(* C11: for every closed bucket max_buyers_per_second is the maximum of the buyers
   tally over the seconds floor(open_time/1000) .. floor(close_time/1000), a second
   without a tally counting as 0, and max_sellers_per_second the maximum of the
   sellers tally over the same seconds, each taken on its own; with the trades
   t=1000 buy, t=1500 sell, t=2999 buy and the bucket [0, 3000] the candle has
   num_buyers = 2, num_sellers = 1, power_position = 1 and both maxima 1. *)
C11_PerSecondMaxima ==
    [][ClosedStep =>
          LET k == kline_data'[1]
              c == ret'[1]
              B(s) == BuyersTally(second_trade_counts, s)
              S(s) == SellersTally(second_trade_counts, s)
          IN  /\ IsMaxOver(c.max_buyers_per_second, SecondsOf(k), B)
              /\ IsMaxOver(c.max_sellers_per_second, SecondsOf(k), S)
              /\ ScenarioRecorded /\ k = ScenarioKline =>
                    /\ c.num_buyers = 2
                    /\ c.num_sellers = 1
                    /\ c.power_position = 1
                    /\ c.max_buyers_per_second = 1
                    /\ c.max_sellers_per_second = 1]_vars

\* the bucket [0, 3000] has been closed on the three trades of the scenario
C11_Witness ==
    /\ Closed
    /\ kline_data = Some(ScenarioKline)
    /\ ScenarioRecorded
    /\ ret[1].max_buyers_per_second = 1
    /\ ret[1].max_sellers_per_second = 1

----------------------------------------------------------------------------
(* Malformed messages and a failing sink *)

FaultTradeTimes == {59999, 60000}

WellFormedTrades ==
    [T : FaultTradeTimes, p : PriceStrings, q : {<<"1">>}, m : BOOLEAN, t : TradeIds]

\* the dict d without the key
Without(d, key) == [f \in DOMAIN d \ {key} |-> d[f]]

\* a string float() rejects
Unparseable == <<"x">>

SampleTrade == [T |-> 60000, p |-> <<"9", "0">>, q |-> <<"1">>, m |-> FALSE, t |-> 7]

MalformedTrades ==
    {Without(SampleTrade, "q"), Without(SampleTrade, "T"),
     [SampleTrade EXCEPT !.q = Unparseable]}

FaultTradeMessages == WellFormedTrades \cup MalformedTrades

FaultBucketOpenTimes == {60000, 120000}

SavedKlines == {KlineBody(o) @@ [x |-> TRUE] : o \in FaultBucketOpenTimes}

SampleKline == KlineBody(60000) @@ [x |-> TRUE]

MalformedKlines ==
    {[SampleKline EXCEPT !.o = Unparseable], Without(SampleKline, "v"),
     Without(SampleKline, "T")}

FaultKlines ==
    SavedKlines \cup MalformedKlines \cup {KlineBody(OpenBucketTime) @@ [x |-> FALSE]}

NextFaults ==
    \/ \E m \in FaultTradeMessages : HandleTrade(m)
    \/ \E k \in FaultKlines : HandleKline(k)
    \/ \E k \in SavedKlines : HandleKlineSaveFails(k)

SpecFaults == Init /\ [][NextFaults]_vars

NumericKeys == {"o", "h", "l", "c", "v"}

\* a closed kline summary with a key missing or a numeric field that does not parse
MalformedClosed(k) ==
    /\ "x" \in DOMAIN k
    /\ k.x = TRUE
    /\ \/ \E key \in NumericKeys \cup {"t", "T"} : key \notin DOMAIN k
       \/ \E key \in NumericKeys \cap DOMAIN k : k[key] = Unparseable

\* the step being taken handles a malformed trade tick or closed kline summary
MalformedStep ==
    \/ op' = "trade" /\ raised' \in {"KeyError", "ValueError"}
    \/ op' = "kline" /\ MalformedClosed(kline_data'[1])

(* C12: handling a malformed message (a missing key or an unparseable numeric field,
   in a trade tick or in a closed kline summary) leaves trades_buffer and
   second_trade_counts unchanged, hands nothing to the sink, lets no exception
   escape _handle_message, and leaves the loop ready for the next message. *)
C12_MalformedRejected ==
    [][MalformedStep =>
          /\ trades_buffer' = trades_buffer
          /\ second_trade_counts' = second_trade_counts
          /\ save_calls' = <<>>
          /\ ret' = None
          /\ ws_state' = "receiving"]_vars

\* the step being taken is a closed bucket whose save_candle call raised
SaveFailedStep == op' = "kline" /\ ret' # None /\ raised' = SaveError

(* C13: when save_candle fails for a candle, the exception stays inside
   _handle_message and the loop keeps receiving without a reconnect, save_candle was
   called once for that candle and is not called again, nothing is stored, and the
   processor is left exactly as by a close whose save succeeded: the retention
   eviction of that close is applied, so later trades and closes meet the usual state. *)
C13_SaveFailureContained ==
    [][SaveFailedStep =>
          LET k == kline_data'[1]
              r == process_minute_candle(trades_buffer, second_trade_counts, k)
          IN  /\ ws_state' = "receiving"
              /\ save_calls' = ret'
              /\ Len(save_calls') = 1
              /\ candles_table' = candles_table
              /\ trades_buffer' = NewerThan(trades_buffer, k.T - 2 * 60 * 1000)
              /\ trades_buffer' = r.trades_buffer
              /\ second_trade_counts' = r.second_trade_counts
              /\ ret' = r.ret]_vars

\* a save has just failed on a close that evicted a trade, and the loop is receiving
C13_Witness ==
    /\ Closed
    /\ raised = SaveError
    /\ ws_state = "receiving"
    /\ Len(save_calls) = 1
    /\ Len(trades_buffer) < Len(recorded)

\* a closed kline summary whose fields are all present and parse
WellFormedClosed(k) ==
    /\ "x" \in DOMAIN k
    /\ k.x = TRUE
    /\ ~MalformedClosed(k)

(* C14: while the collector is receiving, handling a well-formed closed-bucket
   notification makes exactly one call of save_candle, within the handling of that
   message, with a candle whose timestamp is the open time of the bucket; trade ticks
   and kline updates that are not closed make no call of save_candle. *)
C14_OneSavePerClose ==
    /\ (op = "kline" /\ WellFormedClosed(kline_data[1])) =>
          /\ Len(save_calls) = 1
          /\ save_calls[1].timestamp = kline_data[1].t
          /\ save_calls = ret
    /\ (op = "trade" \/ (op = "kline" /\ NotClosed(kline_data[1]))) => save_calls = <<>>

\* closed buckets have been handled, with and without trades, and a candle was saved
C14_Witness ==
    /\ Closed
    /\ WellFormedClosed(kline_data[1])
    /\ save_calls = <<ret[1]>>
    /\ ret[1].timestamp = 60000
    /\ Counted(ret[1]) = 2

----------------------------------------------------------------------------
(* Trades of one bucket arriving in any order *)

\* add_trade calls in a behaviour of the order scenario
MaxOrderTrades == 3

\* trades of the bucket [60000, 119999]: a large one of 2^SignificandBits units, whose
\* float has no room for one unit more, and later ones of one unit
OrderTradeMessages ==
    [T : {60000}, p : PriceStrings, q : {<<"1", "2", "8">>}, m : BOOLEAN, t : TradeIds]
    \cup [T : {60500}, p : PriceStrings, q : {<<"1">>}, m : BOOLEAN, t : TradeIds]

OrderBucketOpenTimes == {60000, 120000}

OrderKlines == {KlineBody(o) @@ [x |-> TRUE] : o \in OrderBucketOpenTimes}

NextOrder ==
    \/ \E m \in OrderTradeMessages : TradeStep(m, MaxOrderTrades) /\ UNCHANGED connvars
    \/ \E k \in OrderKlines : HandleKline(k)

SpecOrder == Init /\ [][NextOrder]_vars

\* a fresh processor after add_trade of the trades of s, in the order of s
RECURSIVE Replay(_)
Replay(s) ==
    IF Len(s) = 0
    THEN [trades_buffer |-> <<>>, second_trade_counts |-> EmptyDict]
    ELSE LET r == Replay(SubSeq(s, 1, Len(s) - 1))
         IN  add_trade(r.trades_buffer, r.second_trade_counts, s[Len(s)])

\* the orders in which n trades can arrive
Orders(n) == {f \in [1..n -> 1..n] : \A i, j \in 1..n : f[i] = f[j] => i = j}

\* the candle and the tally map a close of k gives are the same after p and after q
SameClose(p, q, k) ==
    LET cp == process_minute_candle(p.trades_buffer, p.second_trade_counts, k)
        cq == process_minute_candle(q.trades_buffer, q.second_trade_counts, k)
    IN  /\ p.second_trade_counts = q.second_trade_counts
        /\ cp.ret = cq.ret
        /\ cp.second_trade_counts = cq.second_trade_counts

(* C15: for the trades recorded with no bucket close in between, the tally map and
   the candle of a following closed bucket (counts, volumes, power_position,
   per-second maxima), and the tally map after that close, are the same for every
   order in which the trades were passed to add_trade. *)
C15_OrderIndependent ==
    max_close_time = -1 =>
        \A f \in Orders(Len(recorded)) : \A k \in OrderKlines :
            SameClose([trades_buffer |-> trades_buffer,
                       second_trade_counts |-> second_trade_counts],
                      Replay([i \in 1..Len(recorded) |-> recorded[f[i]]]), k)

----------------------------------------------------------------------------
(* The sqlite sink on its own: candles saved and saved again as the clock advances *)

\* seconds the clock of the database advances in a behaviour
MaxClock == 2

SqliteTrades ==
    <<TradeData([SampleTrade EXCEPT !.T = 500]), TradeData(SampleTrade)>>

\* candles of the buckets of the feed, without trades and with the trades above
SqliteCandles ==
    {ClosedCandle(buf, Replay(buf).second_trade_counts, k).ret[1] :
        buf \in {<<>>, SqliteTrades}, k \in ClosedKlines}

\* DataStorage.save_candle(candle) with output_format 'sqlite'
SaveCandle(candle) ==
    /\ output_format = "sqlite"
    /\ op' = "save"
    /\ save_calls' = <<candle>>
    /\ candles_table' = save_candle(output_format, candles_table, candle, now)
    /\ UNCHANGED <<trades_buffer, second_trade_counts, recorded, max_close_time,
                   kline_data, ret, raised, ws_state, output_format, now, loopvars>>
    /\ UNCHANGED connvars

\* a second passes
Tick ==
    /\ now < MaxClock
    /\ now' = now + 1
    /\ UNCHANGED <<corevars, output_format, candles_table, loopvars>>
    /\ UNCHANGED connvars

NextSqlite ==
    \/ \E candle \in SqliteCandles : SaveCandle(candle)
    \/ Tick

SpecSqlite == InitWith("sqlite") /\ [][NextSqlite]_vars

\* the thirteen candle columns of a row
CandleColumns(row) == [f \in DOMAIN row \ {"created_at"} |-> row[f]]

\* the rows of the table with another timestamp than the candle's
OtherRows(table, candle) == {row \in table : row.timestamp # candle.timestamp}

(* C17: with the sqlite sink, after any sequence of save_candle calls the candles
   table holds at most one row per timestamp, that row carries the values of the last
   candle saved with that timestamp, and saving the same candle twice leaves the same
   table as saving it once. *)
C17_IdempotentUpsert ==
    /\ [](\A r1, r2 \in candles_table : r1.timestamp = r2.timestamp => r1 = r2)
    /\ [][op' = "save" =>
             LET candle == save_calls'[1]
             IN  /\ \E row \in candles_table' : CandleColumns(row) = candle
                 /\ OtherRows(candles_table', candle) = OtherRows(candles_table, candle)
                 /\ (op = "save" /\ save_calls = save_calls') =>
                       candles_table' = candles_table]_vars

----------------------------------------------------------------------------
(* Tallies against the buffered trades *)

\* the seconds that have a tally or a buffered trade
KnownSeconds ==
    DOMAIN second_trade_counts
        \cup {trades_buffer[i].timestamp \div 1000 : i \in DOMAIN trades_buffer}

(* C18: in every reachable state, for every second s, the buyers tally of s (0 when
   absent) is the number of trades of trades_buffer in second s with is_buyer_maker
   false, and the sellers tally of s the number with is_buyer_maker true; no tally
   outlives the trades of its second. *)
C18_TalliesMatchBuffer ==
    \A s \in KnownSeconds :
        /\ BuyersTally(second_trade_counts, s)
              = Cardinality(Buyers(trades_buffer, AtSecond(trades_buffer, s)))
        /\ SellersTally(second_trade_counts, s)
              = Cardinality(Sellers(trades_buffer, AtSecond(trades_buffer, s)))

\* the step being taken is an add_trade call
AddTradeStep == op' = "trade" /\ Len(recorded') = Len(recorded) + 1

\* 1 for the counter add_trade increments, 0 for every other
Increment(trade, s, is_buyer_maker) ==
    IF s = trade.timestamp \div 1000 /\ trade.is_buyer_maker = is_buyer_maker THEN 1 ELSE 0

(* C19: add_trade appends the trade at the end of trades_buffer and increases exactly
   one counter by exactly 1, the sellers counter of second floor(timestamp/1000) when
   is_buyer_maker is true and the buyers counter of that second otherwise, every other
   counter being unchanged; and no step decreases a counter, except that a bucket
   close removes whole seconds older than its cutoff second. *)
C19_AddTradeFrame ==
    [][/\ AddTradeStep =>
             LET trade == recorded'[Len(recorded')]
             IN  /\ trades_buffer' = Append(trades_buffer, trade)
                 /\ \A s \in DOMAIN second_trade_counts \cup DOMAIN second_trade_counts' :
                       /\ BuyersTally(second_trade_counts', s)
                             = BuyersTally(second_trade_counts, s) + Increment(trade, s, FALSE)
                       /\ SellersTally(second_trade_counts', s)
                             = SellersTally(second_trade_counts, s) + Increment(trade, s, TRUE)
       /\ second_trade_counts' # second_trade_counts =>
             \A s \in DOMAIN second_trade_counts :
                IF s \in DOMAIN second_trade_counts'
                THEN /\ second_trade_counts'[s].buyers >= second_trade_counts[s].buyers
                     /\ second_trade_counts'[s].sellers >= second_trade_counts[s].sellers
                ELSE ClosedStep /\ s < (kline_data'[1].T - 2 * 60 * 1000) \div 1000]_vars

\* a second trade of the same second and side has raised its counter from 1 to 2
C19_Witness ==
    /\ op = "trade"
    /\ Len(recorded) = 2
    /\ recorded[1].timestamp \div 1000 = recorded[2].timestamp \div 1000
    /\ recorded[1].is_buyer_maker /\ recorded[2].is_buyer_maker
    /\ SellersTally(second_trade_counts, recorded[2].timestamp \div 1000) = 2
    /\ BuyersTally(second_trade_counts, recorded[2].timestamp \div 1000) = 0
    /\ trades_buffer = recorded

(* C20: for every candle process_minute_candle emits, after any add_trade calls and
   earlier closes, max_buyers_per_second <= num_buyers and
   max_sellers_per_second <= num_sellers. *)
C20_MaximaWithinCounts ==
    Closed =>
        /\ ret[1].max_buyers_per_second <= ret[1].num_buyers
        /\ ret[1].max_sellers_per_second <= ret[1].num_sellers

----------------------------------------------------------------------------
(* The message loop step by step: messages arrive while one is being handled *)

\* number of messages the socket receives in a behaviour
MaxMessages == 3

StepTradeMessages ==
    [T : {59999, 60000}, p : PriceStrings, q : {<<"1">>}, m : {FALSE}, t : TradeIds]

StepKlines ==
    {KlineBody(60000) @@ [x |-> TRUE], KlineBody(120000) @@ [x |-> TRUE],
     KlineBody(OpenBucketTime) @@ [x |-> FALSE]}

\* the decoded messages: the stream they belong to and their 'data' or 'k' object
StepMessages ==
    {[stream |-> "trade", data |-> m] : m \in StepTradeMessages}
        \cup {[stream |-> "kline_1m", data |-> k] : k \in StepKlines}

\* the socket receives a message, whatever the loop is doing
Arrive(msg) ==
    /\ Len(arrived) < MaxMessages
    /\ inbox' = Append(inbox, msg)
    /\ arrived' = Append(arrived, msg)
    /\ UNCHANGED <<corevars, sinkvars, handled, pc, frame>>
    /\ UNCHANGED connvars

\* mutant: the handler is started without being awaited
ReadyForNext_not_awaited(p) == TRUE

\* await self._handle_message(message): the loop comes back for the next message
\* when the call has returned
ReadyForNext(p) == p = "recv"

\* async for message in self.websocket, and the entry of _handle_message
TakeMessage ==
    /\ ws_state = "receiving"
    /\ ReadyForNext(pc)
    /\ inbox # <<>>
    /\ inbox' = Tail(inbox)
    /\ handled' = Append(handled, Head(inbox))
    /\ frame' = Some([message |-> Head(inbox),
                      trades_buffer |-> trades_buffer,
                      second_trade_counts |-> second_trade_counts,
                      minute_trades |-> <<>>,
                      candle |-> None])
    /\ pc' = "handle"
    /\ UNCHANGED <<corevars, sinkvars, arrived>>
    /\ UNCHANGED connvars

\* the @trade branch: the TradeData is built and passed to add_trade
RunAddTrade ==
    /\ pc = "handle"
    /\ frame[1].message.stream = "trade"
    /\ \E trade \in {TradeData(frame[1].message.data)} :
       \E r \in {add_trade(trades_buffer, second_trade_counts, trade)} :
           /\ trades_buffer' = r.trades_buffer
           /\ second_trade_counts' = r.second_trade_counts
           /\ recorded' = Append(recorded, trade)
    /\ op' = "trade"
    /\ kline_data' = None
    /\ ret' = None
    /\ save_calls' = <<>>
    /\ pc' = "recv"
    /\ frame' = None
    /\ UNCHANGED <<max_close_time, raised, ws_state, sinkvars, inbox, arrived, handled>>
    /\ UNCHANGED connvars

\* the @kline_1m branch up to the list minute_trades of process_minute_candle
ReadRange ==
    /\ pc = "handle"
    /\ frame[1].message.stream = "kline_1m"
    /\ \E k \in {frame[1].message.data} :
          /\ op' = "kline"
          /\ kline_data' = Some(k)
          /\ IF IsClosed(k)
             THEN /\ pc' = "scan"
                  /\ frame' = Some([frame[1] EXCEPT !.minute_trades =
                        SelectSeq(trades_buffer, LAMBDA trade : InMinute(trade, k.t, k.T))])
             ELSE /\ pc' = "recv"
                  /\ frame' = None
    /\ ret' = None
    /\ save_calls' = <<>>
    /\ UNCHANGED <<trades_buffer, second_trade_counts, recorded, max_close_time,
                   raised, ws_state, sinkvars, inbox, arrived, handled>>
    /\ UNCHANGED connvars

\* the metrics of minute_trades, the loop over the seconds and the CandleData
ScanRange ==
    /\ pc = "scan"
    /\ \E k \in {frame[1].message.data} :
          /\ frame' = Some([frame[1] EXCEPT !.candle =
                ClosedCandle(frame[1].minute_trades, second_trade_counts, k).ret])
          /\ second_trade_counts' =
                ScanSeconds(second_trade_counts, k.t \div MsPerSecond, k.T \div MsPerSecond)
    /\ pc' = "evict"
    /\ UNCHANGED <<trades_buffer, recorded, max_close_time, op, kline_data, ret,
                   save_calls, raised, ws_state, sinkvars, inbox, arrived, handled>>
    /\ UNCHANGED connvars

\* the cleanup of old trades and old seconds, and the return of the candle
EvictOld ==
    /\ pc = "evict"
    /\ \E k \in {frame[1].message.data} :
       \E cutoff_time \in {k.T - RetentionMs} :
          /\ trades_buffer' =
                SelectSeq(trades_buffer, LAMBDA trade : KeepTrade(trade, cutoff_time))
          /\ second_trade_counts' =
                DropSeconds(second_trade_counts, cutoff_time \div MsPerSecond)
          /\ max_close_time' = Max2(max_close_time, k.T)
    /\ ret' = frame[1].candle
    /\ pc' = "save"
    /\ UNCHANGED <<recorded, op, kline_data, save_calls, raised, ws_state, sinkvars,
                   inbox, arrived, handled, frame>>
    /\ UNCHANGED connvars

\* if candle: self.data_storage.save_candle(candle)
SaveResult ==
    /\ pc = "save"
    /\ save_calls' = save_candle_calls(ret)
    /\ candles_table' = save_candle(output_format, candles_table, ret[1], now)
    /\ pc' = "recv"
    /\ frame' = None
    /\ UNCHANGED <<trades_buffer, second_trade_counts, recorded, max_close_time, op,
                   kline_data, ret, raised, ws_state, output_format, now,
                   inbox, arrived, handled>>
    /\ UNCHANGED connvars

NextSteps ==
    \/ \E msg \in StepMessages : Arrive(msg)
    \/ TakeMessage
    \/ RunAddTrade
    \/ ReadRange
    \/ ScanRange
    \/ EvictOld
    \/ SaveResult

SpecSteps == Init /\ [][NextSteps]_vars

(* C16: messages are handled strictly one at a time and in arrival order, and a
   bucket close is one atomic read-then-evict step: from the moment a message is
   taken until its handling is over no other message is taken, no add_trade call and
   no other close falls between the range read and the eviction of a
   process_minute_candle call, and the close leaves the candle, the buffer and the
   tallies that process_minute_candle gives on the state the message found. *)
C16_SerializedAtomicClose ==
    /\ [](handled = SubSeq(arrived, 1, Len(handled)))
    /\ [][/\ Len(handled') > Len(handled) => pc = "recv" /\ frame = None
          /\ pc \in {"scan", "evict"} =>
                /\ recorded' = recorded
                /\ handled' = handled
                /\ pc' \in {pc, IF pc = "scan" THEN "evict" ELSE "save"}
          /\ pc = "scan" => trades_buffer' = trades_buffer
          /\ pc = "evict" /\ pc' # pc =>
                LET r == process_minute_candle(frame[1].trades_buffer,
                                               frame[1].second_trade_counts,
                                               frame[1].message.data)
                IN  /\ ret' = r.ret
                    /\ trades_buffer' = r.trades_buffer
                    /\ second_trade_counts' = r.second_trade_counts]_vars

\* a close has read its range and not yet evicted, and a trade is waiting in the inbox
C16_Witness ==
    /\ pc = "evict"
    /\ Len(frame[1].minute_trades) > 0
    /\ inbox # <<>>
    /\ Head(inbox).stream = "trade"

----------------------------------------------------------------------------
(* run, _websocket_handler, _handle_reconnection and _signal_handler *)

\* _create_websocket_connection calls in a behaviour
MaxConnects == 12

\* add_trade calls in a behaviour of the connection loop
MaxConnTrades == 1

\* config.py: RECONNECT_INTERVAL, MAX_RECONNECT_ATTEMPTS
reconnect_interval == 5
max_reconnect_attempts == 10

\* the longest wait of _handle_reconnection, in seconds
MaxWaitTime == 300

Min2(a, b) == IF a <= b THEN a ELSE b

\* mutant: the retries stop one failure later
GivesUp_one_later(attempts) == attempts > max_reconnect_attempts + 1

\* if self.reconnect_attempts > self.config['max_reconnect_attempts']
GivesUp(attempts) == attempts > max_reconnect_attempts

\* mutant: the first wait is already doubled
WaitTime_from_double(attempts) == Min2(reconnect_interval * (2 ^ attempts), MaxWaitTime)

\* min(self.config['reconnect_interval'] * (2 ** (self.reconnect_attempts - 1)), 300)
WaitTime(attempts) == Min2(reconnect_interval * (2 ^ (attempts - 1)), MaxWaitTime)

\* the messages of a connection: a trade of the bucket [60000, 119999] and its close
ConnTradeMessages == {SampleTrade}
ConnKlines == {SampleKline}

\* how `async for message in self.websocket` ends: "" when the iteration stops
\* without an exception, else the exception raised
StreamEndings == {"", "ConnectionClosed", "OSError"}

\* run(): self.running = True, then _websocket_handler is awaited
Run ==
    /\ handler = "init"
    /\ running' = TRUE
    /\ handler' = "while"
    /\ UNCHANGED <<corevars, sinkvars, loopvars>>
    /\ UNCHANGED <<reconnect_attempts, wait_time, connects, consecutive, slept, shutdown>>

\* while self.running
WhileRunning ==
    /\ handler = "while"
    /\ handler' = IF running THEN "connect" ELSE "done"
    /\ UNCHANGED <<corevars, sinkvars, loopvars>>
    /\ UNCHANGED <<running, reconnect_attempts, wait_time, connects, consecutive, slept,
                   shutdown>>

\* self.websocket = await self._create_websocket_connection(), which returns or
\* raises, and self.reconnect_attempts = 0 after it returned
CreateConnection(ok) ==
    /\ handler = "connect"
    /\ connects < MaxConnects
    /\ connects' = connects + 1
    /\ slept' = FALSE
    /\ IF ok
       THEN /\ reconnect_attempts' = 0
            /\ consecutive' = 0
            /\ handler' = "iter"
       ELSE /\ handler' = "reconnect"
            /\ UNCHANGED <<reconnect_attempts, consecutive>>
    /\ UNCHANGED <<corevars, sinkvars, loopvars>>
    /\ UNCHANGED <<running, wait_time, shutdown>>

\* async for message in self.websocket: a message is there
NextMessage ==
    /\ handler = "iter"
    /\ handler' = "check"
    /\ UNCHANGED <<corevars, sinkvars, loopvars>>
    /\ UNCHANGED <<running, reconnect_attempts, wait_time, connects, consecutive, slept,
                   shutdown>>

\* async for message in self.websocket: the iteration ends, and the loop is left for
\* the while test, or raises, and an except clause calls _handle_reconnection
StreamEnds(exc) ==
    /\ handler = "iter"
    /\ handler' = IF exc = "" THEN "while" ELSE "reconnect"
    /\ UNCHANGED <<corevars, sinkvars, loopvars>>
    /\ UNCHANGED <<running, reconnect_attempts, wait_time, connects, consecutive, slept,
                   shutdown>>

\* if not self.running: break
IfNotRunning ==
    /\ handler = "check"
    /\ handler' = IF ~running THEN "while" ELSE "handle"
    /\ UNCHANGED <<corevars, sinkvars, loopvars>>
    /\ UNCHANGED <<running, reconnect_attempts, wait_time, connects, consecutive, slept,
                   shutdown>>

\* await self._handle_message(message)
HandleMessage ==
    /\ handler = "handle"
    /\ handler' = "iter"
    /\ \/ \E m \in ConnTradeMessages : TradeStep(m, MaxConnTrades)
       \/ \E k \in ConnKlines : KlineStep(k, TRUE)
    /\ UNCHANGED <<running, reconnect_attempts, wait_time, connects, consecutive, slept,
                   shutdown>>

\* _handle_reconnection: if not self.running: return
HandleReconnection ==
    /\ handler = "reconnect"
    /\ IF ~running
       THEN handler' = "while" /\ UNCHANGED consecutive
       ELSE handler' = "backoff" /\ consecutive' = consecutive + 1
    /\ UNCHANGED <<corevars, sinkvars, loopvars>>
    /\ UNCHANGED <<running, reconnect_attempts, wait_time, connects, slept, shutdown>>

\* _handle_reconnection from `self.reconnect_attempts += 1` to the call of asyncio.sleep
Backoff ==
    /\ handler = "backoff"
    /\ reconnect_attempts' = reconnect_attempts + 1
    /\ IF GivesUp(reconnect_attempts + 1)
       THEN /\ running' = FALSE
            /\ handler' = "while"
            /\ UNCHANGED wait_time
       ELSE /\ wait_time' = WaitTime(reconnect_attempts + 1)
            /\ handler' = "sleep"
            /\ UNCHANGED running
    /\ UNCHANGED <<corevars, sinkvars, loopvars>>
    /\ UNCHANGED <<connects, consecutive, slept, shutdown>>

\* await asyncio.sleep(wait_time) returns
Sleep ==
    /\ handler = "sleep"
    /\ slept' = TRUE
    /\ handler' = "while"
    /\ UNCHANGED <<corevars, sinkvars, loopvars>>
    /\ UNCHANGED <<running, reconnect_attempts, wait_time, connects, consecutive, shutdown>>

\* _signal_handler, run by the interpreter between two instructions of the main thread
SignalHandler ==
    /\ running' = FALSE
    /\ shutdown' = TRUE
    /\ UNCHANGED <<corevars, sinkvars, loopvars>>
    /\ UNCHANGED <<reconnect_attempts, wait_time, handler, connects, consecutive, slept>>

NextConn ==
    \/ Run
    \/ WhileRunning
    \/ \E ok \in BOOLEAN : CreateConnection(ok)
    \/ NextMessage
    \/ \E exc \in StreamEndings : StreamEnds(exc)
    \/ IfNotRunning
    \/ HandleMessage
    \/ HandleReconnection
    \/ Backoff
    \/ Sleep
    \/ SignalHandler

SpecConn == Init /\ [][NextConn]_vars

\* the event loop runs the handler on: the while test is reached and taken
FairSpecConn == SpecConn /\ WF_vars(WhileRunning)

----------------------------------------------------------------------------
\* a connection attempt that succeeded
Connected == handler = "connect" /\ handler' = "iter"

\* _handle_reconnection goes on after its test of self.running
Handled == handler = "backoff" /\ handler' # "backoff"

\* asyncio.sleep is called
SleepStarts == handler # "sleep" /\ handler' = "sleep"

\* C21: reconnect_attempts grows by exactly 1 for each failure that
\* _handle_reconnection handles while running (so it equals the number of such
\* failures since the last successful connection), is reset to 0 by each successful
\* connection and changes at no other step; it never exceeds
\* max_reconnect_attempts + 1; the step that takes it over max_reconnect_attempts
\* sets running to False and starts no wait; from then on no connection is
\* attempted and no wait is started, and _websocket_handler terminates.
C21_BoundedReconnection ==
    /\ [](reconnect_attempts <= max_reconnect_attempts + 1)
    /\ [][/\ Handled =>
                /\ reconnect_attempts' = reconnect_attempts + 1
                /\ reconnect_attempts' = consecutive
          /\ Connected => reconnect_attempts' = 0
          /\ reconnect_attempts' # reconnect_attempts => Handled \/ Connected
          /\ (reconnect_attempts' > max_reconnect_attempts
                /\ reconnect_attempts <= max_reconnect_attempts) =>
                /\ running' = FALSE
                /\ ~SleepStarts
                /\ wait_time' = wait_time
          /\ reconnect_attempts > max_reconnect_attempts =>
                /\ running' = FALSE
                /\ connects' = connects
                /\ ~SleepStarts
                /\ reconnect_attempts' = reconnect_attempts]_vars
    /\ (reconnect_attempts > max_reconnect_attempts) ~> (handler = "done")

\* the retries were given up and _websocket_handler has returned
C21_Witness ==
    /\ reconnect_attempts = max_reconnect_attempts + 1
    /\ ~running
    /\ ~shutdown
    /\ handler = "done"
    /\ connects = max_reconnect_attempts + 1

----------------------------------------------------------------------------
\* _create_websocket_connection is called
ConnectionAttempt == connects' = connects + 1

\* C22: every connection attempt after the first comes after a completed backoff
\* sleep of _handle_reconnection that followed the previous attempt.
C22_BackoffBeforeReconnect ==
    [][(ConnectionAttempt /\ connects >= 1) => slept]_vars

----------------------------------------------------------------------------
\* C23: the wait of the k-th consecutive reconnection attempt, k >= 1 being the
\* number of failures handled while running since the last successful connection,
\* is min(reconnect_interval * 2^(k-1), 300) seconds; from one consecutive failure
\* to the next it doubles, capped at 300, so it never decreases; it never exceeds
\* 300.
C23_BackoffDelay ==
    /\ [](wait_time <= 300)
    /\ [][SleepStarts =>
            /\ consecutive >= 1
            /\ wait_time' = IF reconnect_interval * (2 ^ (consecutive - 1)) < 300
                            THEN reconnect_interval * (2 ^ (consecutive - 1))
                            ELSE 300
            /\ consecutive = 1 => wait_time' = reconnect_interval
            /\ consecutive > 1 =>
                  /\ wait_time' >= wait_time
                  /\ wait_time' = IF 2 * wait_time < 300 THEN 2 * wait_time ELSE 300]_vars

\* the seventh consecutive wait is the first that the cap shortens: 300, not 320
C23_Witness ==
    /\ handler = "sleep"
    /\ consecutive = 7
    /\ reconnect_attempts = 7
    /\ wait_time = 300

----------------------------------------------------------------------------
\* _signal_handler has run and running is False
ShutDown == shutdown /\ ~running

\* _handle_message runs
MessageHandled == handler = "handle" /\ handler' = "iter"

\* C24: once _signal_handler has set running to False, no message is handled, the
\* trade buffer, the per-second tallies and the stored candles do not change, no
\* sleep of _handle_reconnection is started and no connection is attempted.
C24_NothingAfterShutdown ==
    [][ShutDown =>
          /\ ~MessageHandled
          /\ trades_buffer' = trades_buffer
          /\ second_trade_counts' = second_trade_counts
          /\ candles_table' = candles_table
          /\ ~SleepStarts
          /\ ~ConnectionAttempt]_vars

====
